---- MODULE Spec2Model ----
(***************************************************************************)
(* Model of src/app.py: the reservation page of a nature-education centre. *)
(* A text is a sequence of one-character strings, a dict is a function     *)
(* from keys to values, and Python's None is an option record that holds   *)
(* nothing.  One action of the session specification is one run of the     *)
(* page script triggered by one widget, including the rerun it requests.   *)
(***************************************************************************)
EXTENDS Integers, Sequences, FiniteSets

VARIABLES
    eco_data,        \* the catalog loaded by load_eco_data
    chat_history,    \* st.session_state.chat_history
    auto_fill_data,  \* st.session_state.auto_fill_data
    current_year,    \* st.session_state.current_year
    current_month,   \* st.session_state.current_month
    selected_date,   \* st.session_state.selected_date
    messages,        \* the list handed to call_llm in the last run (empty: no call)
    form_result,     \* the st.error / st.success reports of the last run, in order
    llm_reply,       \* what call_llm returned in the last run (None: no reply)
    script_error,    \* where the last run that ended raised: "none", "calendar",
                     \* "form" or "llm"; it decides the widgets the page offers
    run_pos,         \* the run in progress: "done" (none), "rerun" (st.rerun() was
                     \* called, the next run has not reached the calendar), "llm"
                     \* (the chat handler waits in call_llm)
    page_month,      \* the year and month of the calendar the page shows
    date_origin,     \* history: what set selected_date ("none", "click", "auto_fill")
    ever_auto_fill,  \* history: auto_fill_data was set by some assistant reply
    turn_start,      \* history: selected_date and auto_fill_data as they were when
                     \* the prompt of the chat turn in progress was entered
    q_date,          \* slot query under check: the date asked for
    q_result,        \* slot query under check: what find_slots_for_date returned
    p_text,          \* parser under check: the reply text
    p_result,        \* parser under check: what parse_auto_fill returned
    f_input,         \* submit checks under check: the values they read
    f_result         \* submit checks under check: the reports they made

vars == << eco_data, chat_history, auto_fill_data, current_year, current_month,
           selected_date, messages, form_result, llm_reply, script_error,
           run_pos, page_month, date_origin, ever_auto_fill, turn_start,
           q_date, q_result, p_text, p_result, f_input, f_result >>

----------------------------------------------------------------------------
(* Bounds of the model.                                                     *)

MaxHistory == 4      \* chat turns are accepted while the transcript is shorter
NavBack == 0         \* months the calendar may go back from the first month
NavFwd == 1          \* months the calendar may go forward from the first month
MaxPieces == 5       \* pieces a parsed text is built from
MaxPrograms == 2     \* programs of a queried catalog
MaxSlots == 2        \* slots of a program of a queried catalog

(* Program constants.                                                       *)

InitialYear == 2025
InitialMonth == 9

----------------------------------------------------------------------------
(* Python values.                                                           *)

None == [some |-> FALSE, val |-> << >>]
Some(v) == [some |-> TRUE, val |-> v]

\* the one value standing for "no date" (a datetime.date is always truthy)
NoDate == [year |-> 0, month |-> 0, day |-> 0]
Date(y, m, d) == [year |-> y, month |-> m, day |-> d]

EmptyDict == [k \in {} |-> << >>]
DictSet(d, k, v) == [x \in (DOMAIN d) \cup {k} |-> IF x = k THEN v ELSE d[x]]
\* dict.get(key): None when the key is absent
DictGet(d, k) == IF k \in DOMAIN d THEN Some(d[k]) ELSE None

\* truth value of an optional str or dict: None, "" and {} are false
Truthy(o) == o.some /\ DOMAIN o.val # {}

Min(S) == CHOOSE x \in S : \A y \in S : x <= y

----------------------------------------------------------------------------
(* Python str operations on texts.                                          *)

\* control and space characters that have no escape in a string and are
\* written raw between the quotes
VerticalTab == ""      \* U+000B
FileSep == ""          \* U+001C
GroupSep == ""         \* U+001D
RecordSep == ""        \* U+001E
UnitSep == ""          \* U+001F
NextLine == ""         \* U+0085
NoBreakSpace == " "     \* U+00A0
OghamSpace == " "       \* U+1680

\* the characters str.strip() removes: those of str.isspace().  Python also
\* strips U+2000..U+200A, U+2028, U+2029, U+202F, U+205F and U+3000, which
\* a string of the model cannot be written with
Whitespace ==
    { " ", "\n", "\t", "\r", "\f", VerticalTab, FileSep, GroupSep, RecordSep, UnitSep,
      NextLine, NoBreakSpace, OghamSpace }

\* str.find: the lowest 0-based index at which pat occurs, or -1
Find(s, pat) ==
    LET Occ == { i \in 0..(Len(s) - Len(pat)) : SubSeq(s, i + 1, i + Len(pat)) = pat }
    IN  IF Occ = {} THEN -1 ELSE Min(Occ)

\* pat in s
StrIn(pat, s) == Find(s, pat) # -1

\* s[a:b] for 0 <= a and 0 <= b
Slice(s, a, b) == SubSeq(s, a + 1, IF b < Len(s) THEN b ELSE Len(s))

RECURSIVE LStrip(_)
LStrip(s) == IF s # << >> /\ Head(s) \in Whitespace THEN LStrip(Tail(s)) ELSE s

RECURSIVE RStrip(_)
RStrip(s) ==
    IF s # << >> /\ s[Len(s)] \in Whitespace
    THEN RStrip(SubSeq(s, 1, Len(s) - 1))
    ELSE s

\* str.strip()
Strip(s) == RStrip(LStrip(s))

\* str.split(sep) for a one-character sep: always at least one part
RECURSIVE Split(_, _)
Split(s, sep) ==
    LET i == Find(s, <<sep>>)
    IN  IF i = -1 THEN << s >>
        ELSE << Slice(s, 0, i) >> \o Split(Slice(s, i + 1, Len(s)), sep)

\* str.split(pat)[0]: the text before the first pat, all of it when there is none
SplitHead(s, pat) ==
    LET i == Find(s, pat) IN IF i = -1 THEN s ELSE Slice(s, 0, i)

\* mutant: the line is split at its last colon, as line.rsplit(":", 1) does
SplitColon_Last(line) ==
    LET i == CHOOSE k \in 0..Len(line) - 1 :
                 /\ line[k + 1] = ":"
                 /\ \A j \in k + 2..Len(line) : line[j] # ":"
    IN  [key |-> Slice(line, 0, i), value |-> Slice(line, i + 1, Len(line))]

\* line.split(":", 1) of a line that holds a colon
SplitColon(line) ==
    LET i == Find(line, <<":">>)
    IN  [key |-> Slice(line, 0, i), value |-> Slice(line, i + 1, Len(line))]

----------------------------------------------------------------------------
(* parse_auto_fill.                                                         *)

OpenMarker == << "[", "A", "U", "T", "O", "_", "F", "I", "L", "L", "]" >>
CloseMarker == << "[", "/", "A", "U", "T", "O", "_", "F", "I", "L", "L", "]" >>

\* the loop over the lines: data[key.strip()] = value.strip()
RECURSIVE ParseLines(_, _)
ParseLines(lines, data) ==
    IF lines = << >> THEN data
    ELSE LET line == Head(lines)
             kv == SplitColon(line)
         IN  IF StrIn(<<":">>, line)
             THEN ParseLines(Tail(lines), DictSet(data, Strip(kv.key), Strip(kv.value)))
             ELSE ParseLines(Tail(lines), data)

parse_auto_fill(response) ==
    IF StrIn(OpenMarker, response) /\ StrIn(CloseMarker, response)
    THEN LET start == Find(response, OpenMarker) + Len(OpenMarker)
             end == Find(response, CloseMarker)
             content == Strip(Slice(response, start, end))
         IN  Some(ParseLines(Split(content, "\n"), EmptyDict))
    ELSE None

----------------------------------------------------------------------------
(* datetime: strptime and strftime with the format "%Y-%m-%d".              *)

\* the digits strftime writes
DigitChars == << "0", "1", "2", "3", "4", "5", "6", "7", "8", "9" >>
\* [1-9] of the regular expressions of _strptime
OneToNine == { DigitChars[i] : i \in 2..10 }

\* the decimal digits re's \d matches and int() converts: the ASCII digits and
\* those of other scripts, one row of ten per script, the value of a digit
\* being its place in the row.  The rows are those whose characters can be
\* written in a string here.
DigitRows ==
    << DigitChars,
       << "۰", "۱", "۲", "۳", "۴", "۵", "۶", "۷", "۸", "۹" >>,   \* U+06F0 Extended Arabic-Indic
       << "߀", "߁", "߂", "߃", "߄", "߅", "߆", "߇", "߈", "߉" >>,   \* U+07C0 Nko
       << "০", "১", "২", "৩", "৪", "৫", "৬", "৭", "৮", "৯" >>,   \* U+09E6 Bengali
       << "૦", "૧", "૨", "૩", "૪", "૫", "૬", "૭", "૮", "૯" >>,   \* U+0AE6 Gujarati
       << "௦", "௧", "௨", "௩", "௪", "௫", "௬", "௭", "௮", "௯" >>,   \* U+0BE6 Tamil
       << "೦", "೧", "೨", "೩", "೪", "೫", "೬", "೭", "೮", "೯" >>,   \* U+0CE6 Kannada
       << "෦", "෧", "෨", "෩", "෪", "෫", "෬", "෭", "෮", "෯" >>,   \* U+0DE6 Sinhala Lith
       << "໐", "໑", "໒", "໓", "໔", "໕", "໖", "໗", "໘", "໙" >>,   \* U+0ED0 Lao
       << "႐", "႑", "႒", "႓", "႔", "႕", "႖", "႗", "႘", "႙" >>,   \* U+1090 Myanmar Shan
       << "០", "១", "២", "៣", "៤", "៥", "៦", "៧", "៨", "៩" >>,   \* U+17E0 Khmer
       << "᧐", "᧑", "᧒", "᧓", "᧔", "᧕", "᧖", "᧗", "᧘", "᧙" >>,   \* U+19D0 New Tai Lue
       << "᪀", "᪁", "᪂", "᪃", "᪄", "᪅", "᪆", "᪇", "᪈", "᪉" >>,   \* U+1A80 Tai Tham Hora
       << "᪐", "᪑", "᪒", "᪓", "᪔", "᪕", "᪖", "᪗", "᪘", "᪙" >>,   \* U+1A90 Tai Tham Tham
       << "᮰", "᮱", "᮲", "᮳", "᮴", "᮵", "᮶", "᮷", "᮸", "᮹" >>,   \* U+1BB0 Sundanese
       << "꣐", "꣑", "꣒", "꣓", "꣔", "꣕", "꣖", "꣗", "꣘", "꣙" >>,   \* U+A8D0 Saurashtra
       << "꧐", "꧑", "꧒", "꧓", "꧔", "꧕", "꧖", "꧗", "꧘", "꧙" >>,   \* U+A9D0 Javanese
       << "꧰", "꧱", "꧲", "꧳", "꧴", "꧵", "꧶", "꧷", "꧸", "꧹" >>,   \* U+A9F0 Myanmar Tai Laing
       << "꯰", "꯱", "꯲", "꯳", "꯴", "꯵", "꯶", "꯷", "꯸", "꯹" >>    \* U+ABF0 Meetei Mayek
    >>
DigitValues ==
    [c \in UNION { { DigitRows[r][i] : i \in 1..10 } : r \in DOMAIN DigitRows } |->
        CHOOSE v \in 0..9 : \E r \in DOMAIN DigitRows : DigitRows[r][v + 1] = c]
IsDigit(c) == c \in DOMAIN DigitValues
DigitVal(c) == DigitValues[c]

IsLeap(y) == (y % 4 = 0 /\ y % 100 # 0) \/ y % 400 = 0
DaysInMonth(y, m) ==
    IF m = 2 THEN (IF IsLeap(y) THEN 29 ELSE 28)
    ELSE IF m \in {4, 6, 9, 11} THEN 30 ELSE 31

NoToken == [len |-> 0, val |-> 0]

\* %m at 1-based position i: 1[0-2] | 0[1-9] | [1-9]
MonthToken(s, i) ==
    IF i + 1 <= Len(s) /\ s[i] = "1" /\ s[i + 1] \in {"0", "1", "2"}
    THEN [len |-> 2, val |-> 10 + DigitVal(s[i + 1])]
    ELSE IF i + 1 <= Len(s) /\ s[i] = "0" /\ s[i + 1] \in OneToNine
    THEN [len |-> 2, val |-> DigitVal(s[i + 1])]
    ELSE IF i <= Len(s) /\ s[i] \in OneToNine
    THEN [len |-> 1, val |-> DigitVal(s[i])]
    ELSE NoToken

\* %d at 1-based position i: 3[01] | [12]\d | 0[1-9] | [1-9] | " "[1-9]; only
\* the \d takes a digit of another script
DayToken(s, i) ==
    IF i + 1 <= Len(s) /\ s[i] = "3" /\ s[i + 1] \in {"0", "1"}
    THEN [len |-> 2, val |-> 30 + DigitVal(s[i + 1])]
    ELSE IF i + 1 <= Len(s) /\ s[i] \in {"1", "2"} /\ IsDigit(s[i + 1])
    THEN [len |-> 2, val |-> 10 * DigitVal(s[i]) + DigitVal(s[i + 1])]
    ELSE IF i + 1 <= Len(s) /\ s[i] \in {"0", " "} /\ s[i + 1] \in OneToNine
    THEN [len |-> 2, val |-> DigitVal(s[i + 1])]
    ELSE IF i <= Len(s) /\ s[i] \in OneToNine
    THEN [len |-> 1, val |-> DigitVal(s[i])]
    ELSE NoToken

\* datetime.strptime(s, "%Y-%m-%d").date(); ok is FALSE where it raises ValueError
Strptime(s) ==
    LET n == Len(s)
        head == n >= 5 /\ (\A i \in 1..4 : IsDigit(s[i])) /\ s[5] = "-"
        y == 1000 * DigitVal(s[1]) + 100 * DigitVal(s[2])
             + 10 * DigitVal(s[3]) + DigitVal(s[4])
        m == MonthToken(s, 6)
        p == 6 + m.len
        d == DayToken(s, p + 1)
        ok == /\ head
              /\ m.len > 0
              /\ p <= n
              /\ s[p] = "-"
              /\ d.len > 0
              /\ p + d.len = n
              /\ y >= 1
              /\ d.val <= DaysInMonth(y, m.val)
    IN  IF ok THEN [ok |-> TRUE, date |-> Date(y, m.val, d.val)]
        ELSE [ok |-> FALSE, date |-> NoDate]

TwoDigits(n) == << DigitChars[(n \div 10) + 1], DigitChars[(n % 10) + 1] >>

\* %Y of strftime: the C library writes the year without leading zeros
YearText(y) ==
    IF y >= 1000 THEN TwoDigits(y \div 100) \o TwoDigits(y % 100)
    ELSE IF y >= 100 THEN << DigitChars[(y \div 100) + 1] >> \o TwoDigits(y % 100)
    ELSE IF y >= 10 THEN TwoDigits(y)
    ELSE << DigitChars[y + 1] >>

\* dt.strftime("%Y-%m-%d")
Strftime(dt) ==
    YearText(dt.year) \o << "-" >> \o TwoDigits(dt.month) \o << "-" >> \o TwoDigits(dt.day)

----------------------------------------------------------------------------
(* find_slots_for_date.                                                     *)

\* data.get(key, default) on the catalog
GetOr(data, key, default) == IF key \in DOMAIN data THEN data[key] ELSE default

\* mutant: remain is clamped at zero
SlotView_Clamped(p, slot) ==
    [programId |-> p.programId, programName |-> p.name, target |-> p.target,
     time |-> slot.time, capacity |-> slot.capacity, reserved |-> slot.reserved,
     remain |-> IF slot.capacity < slot.reserved THEN 0
                ELSE slot.capacity - slot.reserved]

SlotView(p, slot) ==
    [programId |-> p.programId, programName |-> p.name, target |-> p.target,
     time |-> slot.time, capacity |-> slot.capacity, reserved |-> slot.reserved,
     remain |-> slot.capacity - slot.reserved]

\* the inner loop: the slots of one program p that fall on target_str
RECURSIVE SlotLoop(_, _, _)
SlotLoop(p, slots, target_str) ==
    IF slots = << >> THEN << >>
    ELSE (IF Head(slots).date = target_str THEN << SlotView(p, Head(slots)) >> ELSE << >>)
         \o SlotLoop(p, Tail(slots), target_str)

\* the outer loop over the programs
RECURSIVE ProgramLoop(_, _)
ProgramLoop(programs, target_str) ==
    IF programs = << >> THEN << >>
    ELSE SlotLoop(Head(programs), GetOr(Head(programs), "availableSlots", << >>), target_str)
         \o ProgramLoop(Tail(programs), target_str)

find_slots_for_date(data, dt) ==
    ProgramLoop(GetOr(data, "programs", << >>), Strftime(dt))

----------------------------------------------------------------------------
(* Texts of the session.  Fixed user-facing strings are abbreviated.        *)

NL == << "\n" >>
KeyDate == << "D", "A", "T", "E" >>
KeyProgram == << "P", "R", "O", "G", "R", "A", "M" >>
KeyTime == << "T", "I", "M", "E" >>

\* stands for the greeting of lines 172-177
GreetingText == << "h", "e", "l", "l", "o" >>
Greeting == [role |-> "assistant", content |-> GreetingText]

\* stands for "\n\n" followed by the confirmation sentence of line 436
ConfirmSuffix == << "\n", "\n", "f", "i", "l", "l", "e", "d" >>

\* the f-string of lines 38-69, kept as one token per interpolated part
build_system_prompt(data) ==
    << "prompt", GetOr(data, "centerName", "default-center"), "rules", "json" >>

UserTurn(text) == [role |-> "user", content |-> text]
AssistantTurn(text) == [role |-> "assistant", content |-> text]

----------------------------------------------------------------------------
(* The chat handler's pieces.                                               *)

\* chat_with_eco_center, up to the completion call: the list handed to call_llm
chat_with_eco_center(history, user_message) ==
    << [role |-> "system", content |-> build_system_prompt(eco_data)] >>
    \o history
    \o << UserTurn(user_message) >>

\* mutant: the parse result is stored whatever it is
ReplyAutoFill_Always(reply, current) == parse_auto_fill(reply)

\* lines 431-433: the session's auto-fill after a reply
ReplyAutoFill(reply, current) ==
    IF Truthy(parse_auto_fill(reply)) THEN parse_auto_fill(reply) ELSE current

\* lines 432-438: the assistant turn stored for a reply
ReplyTurn(reply) ==
    IF Truthy(parse_auto_fill(reply))
    THEN AssistantTurn(Strip(SplitHead(reply, OpenMarker)) \o ConfirmSuffix)
    ELSE AssistantTurn(reply)

\* mutant: the reset leaves no greeting
ResetHistory_Empty == << >>

\* lines 444-454: the transcript after "reset conversation"
ResetHistory == << Greeting >>

----------------------------------------------------------------------------
(* The calendar.                                                            *)

\* the date strings of all slots of the catalog
SlotDates(data) ==
    LET ps == GetOr(data, "programs", << >>)
    IN  UNION { { GetOr(ps[i], "availableSlots", << >>)[j].date :
                    j \in 1..Len(GetOr(ps[i], "availableSlots", << >>)) } :
                i \in 1..Len(ps) }

\* line 245 raises ValueError: some slot's date is not a date strptime accepts
CalendarError(data) == \E ds \in SlotDates(data) : ~Strptime(ds).ok

\* mutant: the days of all slots get a button, whatever their month
AvailableDays_AnyMonth(data, year, month) ==
    [error |-> CalendarError(data),
     days |-> IF CalendarError(data) THEN {}
              ELSE { d \in { Strptime(ds).date.day : ds \in SlotDates(data) } :
                       d <= DaysInMonth(year, month) }]

\* lines 242-249: the days of the shown month that get a button; error where the
\* loop raises, and then the run draws no date button and nothing below the calendar
AvailableDays(data, year, month) ==
    [error |-> CalendarError(data),
     days |-> IF CalendarError(data) THEN {}
              ELSE { Strptime(ds).date.day :
                       ds \in { d \in SlotDates(data) :
                                  /\ Strptime(d).date.month = month
                                  /\ Strptime(d).date.year = year } }]

\* months counted from year 0, to bound the navigation
MonthIndex(year, month) == 12 * year + month - 1

----------------------------------------------------------------------------
(* The reservation form.                                                    *)

\* lines 296-302: the form's date; error where strptime raises ValueError
ResolveFormDate(sd, afd, origin) ==
    LET date_str == IF Truthy(afd) THEN DictGet(afd.val, KeyDate) ELSE None
        parsed == Strptime(date_str.val)
    IN  IF ~Truthy(date_str)
        THEN [error |-> FALSE, form_date |-> sd, selected_date |-> sd, origin |-> origin]
        ELSE IF parsed.ok
        THEN [error |-> FALSE, form_date |-> parsed.date,
              selected_date |-> parsed.date, origin |-> "auto_fill"]
        ELSE [error |-> TRUE, form_date |-> sd, selected_date |-> sd, origin |-> origin]

\* line 334: the option key of a slot view
OptionKey(s) == s.programName \o << "|" >> \o s.time

\* lines 331-345: the preselected index (0-based): the last slot matching the auto-fill
SelectedIndex(slots, afd) ==
    LET auto_program == IF Truthy(afd) THEN DictGet(afd.val, KeyProgram) ELSE None
        auto_time == IF Truthy(afd) THEN DictGet(afd.val, KeyTime) ELSE None
        Hits == { i \in 1..Len(slots) :
                    /\ Truthy(auto_program)
                    /\ Truthy(auto_time)
                    /\ slots[i].programName = auto_program.val
                    /\ slots[i].time = auto_time.val }
    IN  IF Hits = {} THEN 0 ELSE (CHOOSE i \in Hits : \A j \in Hits : j <= i) - 1

\* lines 323-358: the value of the program selectbox; pick 0 keeps the preselection
SelectedProgram(data, form_date, afd, pick) ==
    LET slots == IF form_date # NoDate THEN find_slots_for_date(data, form_date) ELSE << >>
        index == IF pick = 0 THEN SelectedIndex(slots, afd) + 1 ELSE pick
    IN  IF slots # << >> THEN Some(OptionKey(slots[index])) ELSE None

\* mutant: every failing check is reported, not the first alone
SubmitChecks_All(in) ==
    LET errors ==
            (IF in.form_date = NoDate THEN << "select_date" >> ELSE << >>)
            \o (IF ~Truthy(in.selected_program) THEN << "select_program" >> ELSE << >>)
            \o (IF in.org_name = << >> \/ in.contact = << >> \/ in.representative = << >>
                THEN << "required_fields" >> ELSE << >>)
            \o (IF ~in.agree_terms THEN << "agree_terms" >> ELSE << >>)
    IN  IF errors = << >> THEN << "success" >> ELSE errors

\* lines 384-403: the reports of a submit, in order
SubmitChecks(in) ==
    IF in.form_date = NoDate THEN << "select_date" >>
    ELSE IF ~Truthy(in.selected_program) THEN << "select_program" >>
    ELSE IF in.org_name = << >> \/ in.contact = << >> \/ in.representative = << >>
    THEN << "required_fields" >>
    ELSE IF ~in.agree_terms THEN << "agree_terms" >>
    ELSE << "success" >>

\* mutant: a successful submit keeps the selected date
SubmitSelectedDate_Kept(reports, sd) == sd

\* lines 404-406: the session's auto-fill and date after a submit
SubmitAutoFill(reports, afd) == IF reports = << "success" >> THEN None ELSE afd
SubmitSelectedDate(reports, sd) == IF reports = << "success" >> THEN NoDate ELSE sd

FormInput(form_date, selected_program, org_name, contact, representative, agree_terms) ==
    [form_date |-> form_date, selected_program |-> selected_program,
     org_name |-> org_name, contact |-> contact, representative |-> representative,
     agree_terms |-> agree_terms]

----------------------------------------------------------------------------
(* Inputs of the session: a catalog, the user's prompts, the replies of the *)
(* completion service and the form's text fields.                           *)

NameForest == << "F", "W" >>
NameBirds == << "B", "W" >>
TimeMorning == << "1", "0", ":", "0", "0", "-", "1", "1", ":", "0", "0" >>
TimeNoon == << "1", "3", ":", "0", "0", "-", "1", "4", ":", "0", "0" >>

DaySlots == Date(2025, 9, 15)     \* two programs have a slot
DayOctober == Date(2025, 10, 1)   \* one overbooked slot
DayEmpty == Date(2025, 9, 20)     \* no slot
DayAncient == Date(5, 1, 1)       \* a year that strftime writes with one digit

Slot(dt, time, capacity, reserved) ==
    [date |-> Strftime(dt), time |-> time, capacity |-> capacity, reserved |-> reserved]

SessionCatalog ==
    [centerName |-> "center",
     programs |-> <<
        [programId |-> "P1", name |-> NameForest, target |-> "elementary",
         availableSlots |-> << Slot(DaySlots, TimeMorning, 30, 10),
                               Slot(DayOctober, TimeMorning, 20, 25) >>],
        [programId |-> "P2", name |-> NameBirds, target |-> "adult",
         availableSlots |-> << Slot(DaySlots, TimeNoon, 30, 30) >>] >>]

Line(key, value) == key \o << ":", " " >> \o value \o NL
Block(body) == OpenMarker \o NL \o body \o CloseMarker

ReplyPlain == << "o", "k" >>
\* the date and the text before the block are wrapped in characters strip removes
ReplyFill ==
    << UnitSep, "o", "k", VerticalTab, "\n" >>
    \o Block(Line(KeyDate, << UnitSep >> \o Strftime(DaySlots) \o << VerticalTab >>)
             \o Line(KeyProgram, NameBirds)
             \o Line(KeyTime, TimeNoon))
\* a day without slots, written as strptime reads it and strftime never writes
\* it: the year and the last digit in Extended Arabic-Indic digits, the month
\* without its zero
ReplyNoSlots == Block(Line(KeyDate, << "۲", "۰", "۲", "۵", "-", "9", "-", "2", "۰" >>))
ReplyBadDate == Block(Line(KeyDate, << "s", "o", "o", "n" >>))
ReplyNoDate == Block(Line(KeyProgram, NameForest))
ReplyEmptyBlock == << "o", "k", " " >> \o Block(<< >>)
ReplyOpenOnly == << "o", "k", " " >> \o OpenMarker \o Line(KeyDate, Strftime(DaySlots))
ReplyCloseOnly == Line(KeyDate, Strftime(DayOctober)) \o CloseMarker

Replies ==
    { ReplyPlain, ReplyFill, ReplyNoSlots, ReplyBadDate, ReplyNoDate,
      ReplyEmptyBlock, ReplyOpenOnly, ReplyCloseOnly }

Prompts == { << "q" >> }

FieldTexts == { << >>, << "a" >> }

\* the form as a session fills it: the three required fields and the checkbox,
\* all given, one field left empty, or the terms not agreed
FormFills ==
    { [org_name |-> << "a" >>, contact |-> << "a" >>, representative |-> << "a" >>,
       agree_terms |-> TRUE],
      [org_name |-> << "a" >>, contact |-> << >>, representative |-> << "a" >>,
       agree_terms |-> TRUE],
      [org_name |-> << "a" >>, contact |-> << "a" >>, representative |-> << "a" >>,
       agree_terms |-> FALSE] }

----------------------------------------------------------------------------
(* The session: one action is one run of the script.                        *)

SessionInit ==
    /\ chat_history = << Greeting >>
    /\ auto_fill_data = None
    /\ current_year = InitialYear
    /\ current_month = InitialMonth
    /\ selected_date = NoDate
    /\ messages = << >>
    /\ form_result = << >>
    /\ script_error = (IF CalendarError(eco_data) THEN "calendar" ELSE "none")
    /\ run_pos = "done"
    /\ page_month = [year |-> InitialYear, month |-> InitialMonth]
    /\ llm_reply = None
    /\ date_origin = "none"
    /\ ever_auto_fill = FALSE
    /\ turn_start = None

NoQuery ==
    /\ q_date = NoDate
    /\ q_result = None
    /\ p_text = << >>
    /\ p_result = None
    /\ f_input = FormInput(NoDate, None, << >>, << >>, << >>, FALSE)
    /\ f_result = << >>

Init ==
    /\ eco_data = SessionCatalog
    /\ SessionInit
    /\ NoQuery

(* A widget event starts a new run at once: a run that waits in call_llm or *)
(* a rerun that was requested is dropped for it.  The widgets a user can    *)
(* act on are those of the last run that ended (script_error), which stay   *)
(* on the page while a run is in progress.                                  *)

\* a run that triggers no chat and no submit leaves these as the run starts them
Quiet ==
    /\ messages' = << >>
    /\ form_result' = << >>
    /\ llm_reply' = None
    /\ turn_start' = None
    /\ UNCHANGED << eco_data, q_date, q_result, p_text, p_result, f_input, f_result >>

ShownMonth == [year |-> current_year, month |-> current_month]

\* a run without a widget event: the script runs to line 245, then to line 302
\* and, unless it raises at one of them, to its end
Rerun(sd, afd, origin) ==
    LET r == ResolveFormDate(sd, afd, origin)
    IN  IF CalendarError(eco_data)
        THEN /\ selected_date' = sd
             /\ date_origin' = origin
             /\ script_error' = "calendar"
        ELSE /\ selected_date' = r.selected_date
             /\ date_origin' = r.origin
             /\ script_error' = IF r.error THEN "form" ELSE "none"

\* the run that st.rerun() requested (lines 213, 225, 272, 278, 440, 456)
ScriptRerun ==
    /\ run_pos = "rerun"
    /\ Rerun(selected_date, auto_fill_data, date_origin)
    /\ run_pos' = "done"
    /\ page_month' = ShownMonth
    /\ Quiet
    /\ UNCHANGED << chat_history, auto_fill_data, current_year, current_month,
                    ever_auto_fill >>

\* line 301 raises in a run started by a widget below it: the event is lost
FormRaises ==
    /\ script_error' = "form"
    /\ run_pos' = "done"
    /\ page_month' = ShownMonth
    /\ Quiet
    /\ UNCHANGED << chat_history, auto_fill_data, current_year, current_month,
                    selected_date, date_origin, ever_auto_fill >>

\* lines 207-213: the run ends at st.rerun(), above the calendar
PrevMonth ==
    /\ MonthIndex(current_year, current_month)
         > MonthIndex(InitialYear, InitialMonth) - NavBack
    /\ IF current_month = 1
       THEN current_month' = 12 /\ current_year' = current_year - 1
       ELSE current_month' = current_month - 1 /\ current_year' = current_year
    /\ run_pos' = "rerun"
    /\ Quiet
    /\ UNCHANGED << chat_history, auto_fill_data, selected_date, script_error,
                    page_month, date_origin, ever_auto_fill >>

\* lines 219-225: the run ends at st.rerun(), above the calendar
NextMonth ==
    /\ MonthIndex(current_year, current_month)
         < MonthIndex(InitialYear, InitialMonth) + NavFwd
    /\ IF current_month = 12
       THEN current_month' = 1 /\ current_year' = current_year + 1
       ELSE current_month' = current_month + 1 /\ current_year' = current_year
    /\ run_pos' = "rerun"
    /\ Quiet
    /\ UNCHANGED << chat_history, auto_fill_data, selected_date, script_error,
                    page_month, date_origin, ever_auto_fill >>

\* lines 264-278: a click on the button of an available day of the month the page
\* shows; the run ends at st.rerun(), above the form
DateClick(day) ==
    /\ script_error # "calendar"
    /\ page_month = ShownMonth
    /\ day \in AvailableDays(eco_data, current_year, current_month).days
    /\ selected_date' = Date(current_year, current_month, day)
    /\ date_origin' = "click"
    /\ run_pos' = "rerun"
    /\ Quiet
    /\ UNCHANGED << chat_history, auto_fill_data, current_year, current_month,
                    script_error, page_month, ever_auto_fill >>

\* the choices the program selectbox offers: 0 keeps the preselection
ProgramPicks ==
    LET r == ResolveFormDate(selected_date, auto_fill_data, date_origin)
    IN  IF r.form_date = NoDate THEN {0}
        ELSE 0..Len(find_slots_for_date(eco_data, r.form_date))

\* lines 292-406: the form is submitted; the run goes on to its end
Submit(org_name, contact, representative, agree_terms, pick) ==
    LET r == ResolveFormDate(selected_date, auto_fill_data, date_origin)
        in == FormInput(r.form_date,
                        SelectedProgram(eco_data, r.form_date, auto_fill_data, pick),
                        org_name, contact, representative, agree_terms)
        reports == SubmitChecks(in)
        done == reports = << "success" >>
    IN  /\ script_error \notin {"calendar", "form"}
        /\ pick \in ProgramPicks
        /\ IF r.error THEN FormRaises
           ELSE /\ form_result' = reports
                /\ auto_fill_data' = SubmitAutoFill(reports, auto_fill_data)
                /\ selected_date' = SubmitSelectedDate(reports, r.selected_date)
                /\ date_origin' = IF done THEN "none" ELSE r.origin
                /\ script_error' = "none"
                /\ run_pos' = "done"
                /\ page_month' = ShownMonth
                /\ messages' = << >>
                /\ llm_reply' = None
                /\ turn_start' = None
                /\ UNCHANGED << eco_data, chat_history, current_year, current_month,
                                ever_auto_fill, q_date, q_result, p_text, p_result,
                                f_input, f_result >>

\* lines 420-428: a prompt is entered; the user turn is stored and the run waits
\* in call_llm
ChatPrompt(prompt) ==
    LET r == ResolveFormDate(selected_date, auto_fill_data, date_origin)
        asked == Append(chat_history, UserTurn(prompt))
    IN  /\ script_error \notin {"calendar", "form"}
        /\ Len(chat_history) < MaxHistory
        /\ IF r.error THEN FormRaises
           ELSE /\ messages' = chat_with_eco_center(asked, prompt)
                /\ chat_history' = asked
                /\ selected_date' = r.selected_date
                /\ date_origin' = r.origin
                /\ run_pos' = "llm"
                /\ page_month' = ShownMonth
                /\ form_result' = << >>
                /\ llm_reply' = None
                /\ turn_start' = Some([selected_date |-> selected_date,
                                       auto_fill_data |-> auto_fill_data])
                /\ UNCHANGED << eco_data, auto_fill_data, current_year, current_month,
                                script_error, ever_auto_fill, q_date, q_result,
                                p_text, p_result, f_input, f_result >>

\* lines 428-440: call_llm returns reply; the turn is stored and the run ends at
\* st.rerun()
ChatReply(reply) ==
    /\ run_pos = "llm"
    /\ chat_history' = Append(chat_history, ReplyTurn(reply))
    /\ auto_fill_data' = ReplyAutoFill(reply, auto_fill_data)
    /\ ever_auto_fill' = (ever_auto_fill \/ Truthy(parse_auto_fill(reply)))
    /\ llm_reply' = Some(reply)
    /\ run_pos' = "rerun"
    /\ UNCHANGED << eco_data, current_year, current_month, selected_date, messages,
                    form_result, script_error, page_month, date_origin, turn_start,
                    q_date, q_result, p_text, p_result, f_input, f_result >>

\* line 428: call_llm raises and the run ends there
ChatFails ==
    /\ run_pos = "llm"
    /\ script_error' = "llm"
    /\ run_pos' = "done"
    /\ turn_start' = None
    /\ UNCHANGED << eco_data, chat_history, auto_fill_data, current_year,
                    current_month, selected_date, messages, form_result, llm_reply,
                    page_month, date_origin, ever_auto_fill,
                    q_date, q_result, p_text, p_result, f_input, f_result >>

\* lines 443-456: "reset conversation", a button only a run without error draws;
\* the run ends at st.rerun()
ResetConversation ==
    LET r == ResolveFormDate(selected_date, auto_fill_data, date_origin)
    IN  /\ script_error = "none"
        /\ IF r.error THEN FormRaises
           ELSE /\ chat_history' = ResetHistory
                /\ auto_fill_data' = None
                /\ selected_date' = r.selected_date
                /\ date_origin' = r.origin
                /\ run_pos' = "rerun"
                /\ page_month' = ShownMonth
                /\ Quiet
                /\ UNCHANGED << current_year, current_month, script_error,
                                ever_auto_fill >>

\* one step of a session whose completion service answers with one of replies
Session(replies) ==
    \/ ScriptRerun
    \/ PrevMonth
    \/ NextMonth
    \/ \E day \in AvailableDays(eco_data, current_year, current_month).days :
          DateClick(day)
    \/ \E fill \in FormFills, pick \in ProgramPicks :
          Submit(fill.org_name, fill.contact, fill.representative, fill.agree_terms,
                 pick)
    \/ \E prompt \in Prompts : ChatPrompt(prompt)
    \/ \E reply \in replies : ChatReply(reply)
    \/ ChatFails
    \/ ResetConversation

Next == Session(Replies)

Spec == Init /\ [][Next]_vars

----------------------------------------------------------------------------
(* Sessions over several catalogs, with a reply that fills nothing and one  *)
(* whose date has no slot.                                                  *)

\* a slot of September 15 whose date is written without the zero of the month
LooseCatalog ==
    [centerName |-> "center",
     programs |-> <<
        [programId |-> "P1", name |-> NameForest, target |-> "elementary",
         availableSlots |->
            << [date |-> << "2", "0", "2", "5", "-", "9", "-", "1", "5" >>,
                time |-> TimeMorning, capacity |-> 30, reserved |-> 10] >>] >>]

\* a slot of September 15 whose date holds digits of other scripts
DigitsCatalog ==
    [centerName |-> "center",
     programs |-> <<
        [programId |-> "P1", name |-> NameForest, target |-> "elementary",
         availableSlots |->
            << [date |-> << "۲", "০", "2", "꯵", "-", "0", "9", "-", "1", "߅" >>,
                time |-> TimeMorning, capacity |-> 30, reserved |-> 10] >>] >>]

\* a program without slots, and the only slot in the month after the first
SparseCatalog ==
    [centerName |-> "center",
     programs |-> <<
        [programId |-> "P1", name |-> NameForest, target |-> "elementary"],
        [programId |-> "P2", name |-> NameBirds, target |-> "adult",
         availableSlots |-> << Slot(DayOctober, TimeNoon, 5, 0) >>] >>]

\* a slot whose date is no date
BrokenCatalog ==
    [centerName |-> "center",
     programs |-> <<
        [programId |-> "P1", name |-> NameForest, target |-> "elementary",
         availableSlots |->
            << [date |-> << "s", "o", "o", "n" >>,
                time |-> TimeMorning, capacity |-> 30, reserved |-> 10] >>] >>]

SessionCatalogs ==
    { SessionCatalog, LooseCatalog, DigitsCatalog, SparseCatalog, BrokenCatalog,
      [centerName |-> "center"] }

CatalogReplies == { ReplyPlain, ReplyNoSlots }

CatalogsInit ==
    /\ eco_data \in SessionCatalogs
    /\ SessionInit
    /\ NoQuery

CatalogsNext == Session(CatalogReplies)

SpecCatalogs == CatalogsInit /\ [][CatalogsNext]_vars

----------------------------------------------------------------------------
(* parse_auto_fill on its own: every text built from a few pieces.          *)

Pieces ==
    { OpenMarker,
      CloseMarker,
      << " ", VerticalTab, "k", "\f", ":", "\t", NoBreakSpace, "v", ":", "w", UnitSep,
         "\r", "\n" >>,
      << "k", ":", "u", "\n" >>,
      << "x", "\n" >>,
      << "t" >>,
      << ":" >> }

RECURSIVE Concat(_)
Concat(parts) == IF parts = << >> THEN << >> ELSE Head(parts) \o Concat(Tail(parts))

ParseTexts ==
    { Concat(parts) : parts \in UNION { [1..n -> Pieces] : n \in 0..MaxPieces } }

ParseInit ==
    /\ eco_data = SessionCatalog
    /\ SessionInit
    /\ q_date = NoDate
    /\ q_result = None
    /\ p_text \in ParseTexts
    /\ p_result = None
    /\ f_input = FormInput(NoDate, None, << >>, << >>, << >>, FALSE)
    /\ f_result = << >>

Parse ==
    /\ ~p_result.some
    /\ p_result' = Some(parse_auto_fill(p_text))
    /\ UNCHANGED << eco_data, chat_history, auto_fill_data, current_year, current_month,
                    selected_date, messages, form_result, llm_reply, script_error,
                    run_pos, page_month,
                    date_origin, ever_auto_fill, turn_start, q_date, q_result, p_text,
                    f_input, f_result >>

SpecParse == ParseInit /\ [][Parse]_vars

----------------------------------------------------------------------------
(* find_slots_for_date on its own: every small catalog, a few dates.        *)

SlotPool ==
    { Slot(DaySlots, TimeMorning, 30, 10),
      Slot(DaySlots, TimeNoon, 20, 25),
      Slot(DayOctober, TimeMorning, 0, 0) }

SlotLists == UNION { [1..n -> SlotPool] : n \in 0..MaxSlots }

Program(i, slots) ==
    [programId |-> << "p", DigitChars[i + 1] >>, name |-> << "n", DigitChars[i + 1] >>,
     target |-> << "t", DigitChars[i + 1] >>, availableSlots |-> slots]

QueryCatalogs ==
    { [centerName |-> "center"] }
    \cup { [centerName |-> "center", programs |-> [i \in 1..n |-> Program(i, lists[i])]] :
             n \in 0..MaxPrograms, lists \in [1..MaxPrograms -> SlotLists] }

QueryDates == { DaySlots, DayOctober, DayEmpty, DayAncient }

SlotsInit ==
    /\ eco_data \in QueryCatalogs
    /\ SessionInit
    /\ NoQuery

QuerySlots(dt) ==
    /\ q_date' = dt
    /\ q_result' = Some(find_slots_for_date(eco_data, dt))
    /\ UNCHANGED << eco_data, chat_history, auto_fill_data, current_year, current_month,
                    selected_date, messages, form_result, llm_reply, script_error,
                    run_pos, page_month,
                    date_origin, ever_auto_fill, turn_start, p_text, p_result, f_input,
                    f_result >>

SlotsNext == \E dt \in QueryDates : QuerySlots(dt)

SpecSlots == SlotsInit /\ [][SlotsNext]_vars

----------------------------------------------------------------------------
(* The submit checks on their own: every value the form can hand them.      *)

FormDates == { NoDate, DaySlots, DayOctober, DayEmpty }

\* the choices of the program selectbox for a form date
PicksFor(d) ==
    IF d = NoDate THEN {0} ELSE 0..Len(find_slots_for_date(SessionCatalog, d))

FormInputs ==
    UNION { { FormInput(d, SelectedProgram(SessionCatalog, d, None, x[1]),
                        x[2], x[3], x[4], x[5]) :
                x \in PicksFor(d) \X FieldTexts \X FieldTexts \X FieldTexts \X BOOLEAN } :
            d \in FormDates }

FormInit ==
    /\ eco_data = SessionCatalog
    /\ SessionInit
    /\ q_date = NoDate
    /\ q_result = None
    /\ p_text = << >>
    /\ p_result = None
    /\ f_input \in FormInputs
    /\ f_result = << >>

SubmitForm ==
    /\ f_result = << >>
    /\ f_result' = SubmitChecks(f_input)
    /\ UNCHANGED << eco_data, chat_history, auto_fill_data, current_year, current_month,
                    selected_date, messages, form_result, llm_reply, script_error,
                    run_pos, page_month,
                    date_origin, ever_auto_fill, turn_start, q_date, q_result, p_text,
                    p_result,
                    f_input >>

SpecForm == FormInit /\ [][SubmitForm]_vars

----------------------------------------------------------------------------
(* Properties.                                                              *)

IsPrefix(a, b) == Len(a) <= Len(b) /\ SubSeq(b, 1, Len(a)) = a
Last(seq) == seq[Len(seq)]
HasBothMarkers(text) == StrIn(OpenMarker, text) /\ StrIn(CloseMarker, text)

\* the run made a completion call: the transcript as it was before the run
CalledLlm == messages # << >>
TurnsBefore ==
    SubSeq(chat_history, 1, Len(chat_history) - (IF llm_reply.some THEN 2 ELSE 1))
NewUserTurn == chat_history[Len(TurnsBefore) + 1]

\* C1: the list handed to the completion call is the system instruction, then
\* the turns the transcript held before the submission, then the new user turn,
\* which so occurs once, as the last element.
C1_MessagesHoldNewTurnOnce ==
    CalledLlm =>
        /\ messages
             = << [role |-> "system", content |-> build_system_prompt(eco_data)] >>
               \o TurnsBefore \o << NewUserTurn >>
        /\ NewUserTurn.role = "user"

\* C2: a reply holding both markers sets the session's auto-fill to the parsed
\* mapping and stores an assistant turn made of the text before the opening
\* marker and the confirmation suffix, so no marker reaches the transcript.
C2_MarkedReplyFillsAndIsCleaned ==
    (llm_reply.some /\ HasBothMarkers(llm_reply.val)) =>
        /\ auto_fill_data = parse_auto_fill(llm_reply.val)
        /\ Last(chat_history)
             = AssistantTurn(Strip(SplitHead(llm_reply.val, OpenMarker)) \o ConfirmSuffix)
        /\ ~StrIn(OpenMarker, Last(chat_history).content)
        /\ ~StrIn(CloseMarker, Last(chat_history).content)

\* the date the form of a run settles on: that of a pending auto-fill DATE,
\* otherwise the selected date as it was
FormDateOf(sd, afd) ==
    IF Truthy(afd) /\ Truthy(DictGet(afd.val, KeyDate))
    THEN Strptime(afd.val[KeyDate]).date
    ELSE sd

\* C3 as claimed: for a reply lacking a marker parse_auto_fill returns None and
\* the chat turn leaves the session's auto-fill and selected date as they were
\* when the prompt was entered, appending the reply verbatim as one assistant
\* turn.
C3_UnmarkedReplyChangesNoFormState ==
    (llm_reply.some /\ ~HasBothMarkers(llm_reply.val)) =>
        /\ parse_auto_fill(llm_reply.val) = None
        /\ auto_fill_data = turn_start.val.auto_fill_data
        /\ selected_date = turn_start.val.selected_date
        /\ Last(chat_history) = AssistantTurn(llm_reply.val)

\* C3 as amended: for a reply lacking a marker parse_auto_fill returns None;
\* storing the reply (lines 431-440) leaves the session's auto-fill and selected
\* date as they were and appends the reply, verbatim, as one assistant turn
\* after the user turn, and the rerun it requests leaves the selected date too;
\* over the whole turn the auto-fill is as it was when the prompt was entered
\* and the selected date is the one the form of that run settled on.
C3_UnmarkedReplyKeepsFormDate ==
    /\ []((llm_reply.some /\ ~HasBothMarkers(llm_reply.val)) =>
            /\ parse_auto_fill(llm_reply.val) = None
            /\ turn_start.some
            /\ auto_fill_data = turn_start.val.auto_fill_data
            /\ selected_date
                 = FormDateOf(turn_start.val.selected_date, turn_start.val.auto_fill_data)
            /\ Last(chat_history) = AssistantTurn(llm_reply.val))
    /\ [][ (run_pos = "llm" /\ llm_reply'.some /\ ~HasBothMarkers(llm_reply'.val)) =>
             /\ auto_fill_data' = auto_fill_data
             /\ selected_date' = selected_date
             /\ Last(chat_history).role = "user"
             /\ chat_history' = chat_history \o << AssistantTurn(llm_reply'.val) >>
             /\ ~ResolveFormDate(selected_date', auto_fill_data', date_origin').error
             /\ ResolveFormDate(selected_date', auto_fill_data', date_origin').selected_date
                  = selected_date
         ]_vars

\* a reply with the closing marker alone ended a turn whose run had replaced a
\* clicked date by the date of the pending auto-fill
C3_Witness ==
    /\ llm_reply.some
    /\ ~StrIn(OpenMarker, llm_reply.val)
    /\ StrIn(CloseMarker, llm_reply.val)
    /\ Truthy(auto_fill_data)
    /\ turn_start.val.selected_date = DayOctober
    /\ selected_date = DaySlots

\* C4: a submit reports exactly one outcome, the error of the first failing
\* check in the order date, program, required fields, terms, or success when
\* none fails; without a date it is the date error whatever the rest is.
C4_FirstFailingCheckIsReported ==
    LET date_ok == f_input.form_date # NoDate
        program_ok == f_input.selected_program.some /\ f_input.selected_program.val # << >>
        fields_ok == /\ f_input.org_name # << >>
                     /\ f_input.contact # << >>
                     /\ f_input.representative # << >>
        terms_ok == f_input.agree_terms
    IN  f_result # << >> =>
          /\ Len(f_result) = 1
          /\ (f_result[1] = "select_date") <=> ~date_ok
          /\ (f_result[1] = "select_program") <=> (date_ok /\ ~program_ok)
          /\ (f_result[1] = "required_fields") <=> (date_ok /\ program_ok /\ ~fields_ok)
          /\ (f_result[1] = "agree_terms")
               <=> (date_ok /\ program_ok /\ fields_ok /\ ~terms_ok)
          /\ (f_result[1] = "success")
               <=> (date_ok /\ program_ok /\ fields_ok /\ terms_ok)

\* no date, everything else filled in and agreed: the date error alone
C4_Witness ==
    /\ f_result = << "select_date" >>
    /\ f_input.org_name # << >>
    /\ f_input.contact # << >>
    /\ f_input.representative # << >>
    /\ f_input.agree_terms

\* C5 as claimed: a submit that succeeds leaves the selected date and the
\* auto-fill empty; a submit that reports an error changes neither.
C5_SubmitClearsOnlyOnSuccess ==
    [][ form_result' # << >> =>
          IF form_result' = << "success" >>
          THEN auto_fill_data' = None /\ selected_date' = NoDate
          ELSE auto_fill_data' = auto_fill_data /\ selected_date' = selected_date
      ]_vars

\* C5 as amended: a submit that succeeds leaves the selected date and the
\* auto-fill empty; a submit that reports an error leaves the auto-fill as it
\* was and the selected date as the run set it when it drew the form: the
\* date of a pending auto-fill DATE, otherwise what it was.
C5_FailingSubmitKeepsFormDate ==
    [][ form_result' # << >> =>
          IF form_result' = << "success" >>
          THEN auto_fill_data' = None /\ selected_date' = NoDate
          ELSE /\ auto_fill_data' = auto_fill_data
               /\ selected_date' = FormDateOf(selected_date, auto_fill_data)
      ]_vars

\* a submit failed while an auto-fill with a date was pending
C5_Witness ==
    /\ form_result = << "required_fields" >>
    /\ Truthy(auto_fill_data)
    /\ date_origin = "auto_fill"
    /\ selected_date = DaySlots

\* the (program, slot) index pairs of the catalog whose slot is dated q_date
QueryPrograms == GetOr(eco_data, "programs", << >>)
Matching ==
    { ij \in (1..Len(QueryPrograms)) \X (1..MaxSlots + 1) :
        /\ ij[2] <= Len(QueryPrograms[ij[1]].availableSlots)
        /\ QueryPrograms[ij[1]].availableSlots[ij[2]].date = Strftime(q_date) }
Rank(ij) ==
    1 + Cardinality({ ab \in Matching :
                        ab[1] < ij[1] \/ (ab[1] = ij[1] /\ ab[2] < ij[2]) })

\* C6: find_slots_for_date returns one view per slot dated D, in catalog order
\* (programs, then slots), each with remain = capacity - reserved, unclamped;
\* nothing when no slot matches.
C6_SlotsOfDateInCatalogOrder ==
    q_result.some =>
        /\ Len(q_result.val) = Cardinality(Matching)
        /\ \A ij \in Matching :
              LET p == QueryPrograms[ij[1]]
                  slot == p.availableSlots[ij[2]]
              IN  q_result.val[Rank(ij)]
                    = [programId |-> p.programId, programName |-> p.name,
                       target |-> p.target, time |-> slot.time,
                       capacity |-> slot.capacity, reserved |-> slot.reserved,
                       remain |-> slot.capacity - slot.reserved]

\* slots of two programs on the date, one of them overbooked
C6_Witness ==
    /\ q_result.some
    /\ \E i, j \in 1..Len(q_result.val) :
          /\ i < j
          /\ q_result.val[i].programId # q_result.val[j].programId
          /\ q_result.val[j].remain < 0

\* the text between the first opening marker and the first closing marker
Between(text) ==
    Slice(text, Find(text, OpenMarker) + Len(OpenMarker), Find(text, CloseMarker))
\* a line of a text, given by its first position: it runs up to the next newline
LineStarts(text) ==
    { a \in 1..Len(text) + 1 : a = 1 \/ text[a - 1] = "\n" }
LineAt(text, a) ==
    LET b == Min({ e \in (a - 1)..Len(text) : e = Len(text) \/ text[e + 1] = "\n" })
    IN  SubSeq(text, a, b)
ColonLines(text) ==
    { a \in LineStarts(text) : \E i \in 1..Len(LineAt(text, a)) : LineAt(text, a)[i] = ":" }
FirstColon(line) == Min({ i \in 1..Len(line) : line[i] = ":" })
KeyOf(line) == Strip(SubSeq(line, 1, FirstColon(line) - 1))
ValueOf(line) == Strip(SubSeq(line, FirstColon(line) + 1, Len(line)))

\* C7: for a text with both markers parse_auto_fill returns the mapping of the
\* lines between the markers: a line with a colon gives the trimmed text before
\* its first colon as key and the trimmed text after it as value (the last such
\* line of a key wins), lines without a colon give nothing, any key is kept and
\* no key is added.
C7_MappingOfColonLines ==
    (p_result.some /\ HasBothMarkers(p_text)) =>
        LET text == Between(p_text)
            data == p_result.val
        IN  /\ data.some
            /\ DOMAIN data.val = { KeyOf(LineAt(text, a)) : a \in ColonLines(text) }
            /\ \A a \in ColonLines(text) :
                  (\A b \in ColonLines(text) :
                      b > a => KeyOf(LineAt(text, b)) # KeyOf(LineAt(text, a)))
                  => data.val[KeyOf(LineAt(text, a))] = ValueOf(LineAt(text, a))

\* a parsed block one of whose values kept a colon
C7_Witness ==
    /\ p_result.some
    /\ HasBothMarkers(p_text)
    /\ \E key \in DOMAIN p_result.val.val :
          /\ key # << >>
          /\ StrIn(<< ":" >>, p_result.val.val[key])

\* C8 as claimed: every operation leaves the earlier transcript a prefix of the
\* later one.
C8_AppendOnly == [][IsPrefix(chat_history, chat_history')]_vars

\* C8 as amended: every step of every operation but the conversation reset
\* leaves the earlier transcript a prefix of the later one; the reset, which
\* also drops the pending auto-fill, leaves the greeting alone; the first
\* element is always the greeting.
C8_AppendOnlyUntilReset ==
    /\ [](chat_history # << >> /\ chat_history[1] = Greeting)
    /\ [][ \/ IsPrefix(chat_history, chat_history')
           \/ /\ ResetConversation
              /\ chat_history' = << Greeting >>
              /\ auto_fill_data' = None ]_vars

\* the transcript is back to the greeting after a reply had filled the form
C8_Witness == chat_history = << Greeting >> /\ ever_auto_fill /\ run_pos = "rerun"

\* C9: while the auto-fill holds a non-empty DATE every run that draws the form
\* ends with the selected date equal to it, whatever day was clicked meanwhile.
C9_PendingDateIsSelected ==
    (/\ run_pos # "rerun"
     /\ Truthy(auto_fill_data)
     /\ Truthy(DictGet(auto_fill_data.val, KeyDate))) =>
        /\ Strptime(auto_fill_data.val[KeyDate]).ok
        /\ selected_date = Strptime(auto_fill_data.val[KeyDate]).date

\* C10 as claimed: while no reply has filled the form the selected date is
\* empty or a day with a slot, and no submit reports the program error; that
\* error is reported only for a form date that came from an auto-fill and has
\* no slot.
C10_ProgramErrorOnlyAfterAutoFill ==
    /\ ~ever_auto_fill =>
          /\ selected_date = NoDate \/ find_slots_for_date(eco_data, selected_date) # << >>
          /\ form_result # << "select_program" >>
    /\ form_result = << "select_program" >> =>
          /\ date_origin = "auto_fill"
          /\ selected_date # NoDate
          /\ find_slots_for_date(eco_data, selected_date) = << >>

\* every slot date of the catalog is the text strftime("%Y-%m-%d") writes for
\* the date it denotes
Canonical(data) ==
    \A ds \in SlotDates(data) :
        Strptime(ds).ok /\ Strftime(Strptime(ds).date) = ds

\* C10 as amended: the same, for a catalog whose slot dates are all written as
\* strftime("%Y-%m-%d") writes them.
C10_CanonicalCatalog ==
    Canonical(eco_data) =>
        /\ ~ever_auto_fill =>
              /\ \/ selected_date = NoDate
                 \/ \E ds \in SlotDates(eco_data) : Strptime(ds).date = selected_date
              /\ selected_date # NoDate =>
                    find_slots_for_date(eco_data, selected_date) # << >>
              /\ form_result # << "select_program" >>
        /\ form_result = << "select_program" >> =>
              /\ date_origin = "auto_fill"
              /\ selected_date # NoDate
              /\ find_slots_for_date(eco_data, selected_date) = << >>

\* a submit with a clicked date in a session no reply has filled
C10_Witness ==
    /\ Canonical(eco_data)
    /\ ~ever_auto_fill
    /\ selected_date # NoDate
    /\ date_origin = "click"
    /\ form_result # << >>

====
